---- MODULE Spec2Model ----
(***************************************************************************)
(* A model of the ST7735 display driver of src/src/lib.rs (struct ST7734). *)
(*                                                                         *)
(* The driver talks to the panel over a serial bus with a data/command     *)
(* line.  The model keeps, for the operation that ran last, every byte the *)
(* driver put on the bus together with the level of the data/command line  *)
(* it was sent under, and every settle delay it waited.  An operation is   *)
(* one action: the whole body of the public function, down to the bytes.   *)
(*                                                                         *)
(* Three things the source leaves to the build and the host are state of   *)
(* the model: whether the session uses the hardware SPI device or the      *)
(* bit-banged pins (hw), whether integer overflow panics or wraps          *)
(* (checked: a debug or a release profile), and the byte order of the host *)
(* (le).                                                                   *)
(***************************************************************************)
EXTENDS Integers, Sequences, FiniteSets, TLC

(***************************************************************************)
(* Bounds of the model.                                                    *)
(***************************************************************************)
\* Small coordinates are 0..MaxCoord.
MaxCoord == 2
\* Radii are 0..MaxRadius.
MaxRadius == 2
\* An injected transport fault hits one of the first MaxFaultAt bytes.
MaxFaultAt == 2
\* A fill loop of more than MaxWords colour words is not explored.
MaxWords == 9
\* PinSpec follows the pin writes of at most MaxBytes bytes.
MaxBytes == 2
\* PanelSpec draws the rectangles at the panel's edges of at most
\* MaxPanelWords pixels, and the whole screen.
MaxPanelWords == 256

(***************************************************************************)
(* u16 arithmetic.  Rust panics on overflow when overflow checks are on    *)
(* (the debug profile) and wraps modulo 2^16 when they are off (release).  *)
(***************************************************************************)
U16Max == 65535

Wrap16(n) == n % (U16Max + 1)

Fits16(n) == n >= 0 /\ n <= U16Max

\* a * b modulo 2^16 for a, b in 0..65535, without leaving 32-bit integers.
Mul16(a, b) ==
    Wrap16(a * (b % 256) + Wrap16(Wrap16(a * (b \div 256)) * 256))

\* Whether a * b leaves u16, for a, b in 0..65535.
MulOverflows(a, b) == a # 0 /\ b > U16Max \div a

Pow2(n) == 2 ^ n

\* num::integer::sqrt on u16: the floor of the square root.
sqrt(n) == CHOOSE r \in 0..255 : r * r <= n /\ n < (r + 1) * (r + 1)

max(a, b) == IF a >= b THEN a ELSE b

min(a, b) == IF a <= b THEN a ELSE b

(***************************************************************************)
(* f32 arithmetic, IEEE 754 binary32 with round-to-nearest-even, on the    *)
(* non-negative finite values the driver computes.  A value is a record    *)
(* [m, e] standing for m * 2^e, with m odd (or m = 0 and e = 0), so equal  *)
(* values are equal records.  The operators are exact as long as the       *)
(* intermediate integers stay below 2^31, which holds for every input the  *)
(* model explores.                                                         *)
(***************************************************************************)
\* Significand width of binary32.
F32Bits == 24

\* m * 2^e with the trailing zero bits of m moved into the exponent.
F32Reduce(m, e) ==
    IF m = 0 THEN [m |-> 0, e |-> 0]
    ELSE LET k == CHOOSE j \in 0..30 : m % Pow2(j) = 0 /\ (m \div Pow2(j)) % 2 = 1
         IN  [m |-> m \div Pow2(k), e |-> e + k]

\* The binary32 nearest to (n + d) * 2^e, where d = 0 when ~sticky and
\* 0 < d < 1 when sticky; n < 2^31, and n must carry at least F32Bits + 1
\* bits if sticky.  The bits of n below the guard bit go into the sticky bit.
F32Round(n, e, sticky) ==
    IF n < Pow2(F32Bits) THEN F32Reduce(n, e)
    ELSE LET k == CHOOSE j \in 0..6 : n \div Pow2(j) < Pow2(F32Bits + 1)
                                      /\ (j = 0 \/ n \div Pow2(j - 1) >= Pow2(F32Bits + 1))
             g == n \div Pow2(k)
             st == sticky \/ n % Pow2(k) # 0
             m == g \div 2
             up == g % 2 = 1 /\ (st \/ m % 2 = 1)
         IN  IF g < Pow2(F32Bits) THEN F32Reduce(g, e + k)
             ELSE F32Reduce(IF up THEN m + 1 ELSE m, e + k + 1)

\* `n as f32` for an integer n in 0..65535 (exact).
F32FromInt(n) == F32Reduce(n, 0)

\* The quotient bits of a / b, produced five at a time until the quotient
\* carries more than F32Bits + 1 bits or the division is exact:
\* [q, e, r] with a / b = (q + r / b) * 2^e and q < 2^30.
RECURSIVE F32LongDiv(_, _, _, _)
F32LongDiv(q, r, b, e) ==
    IF q >= Pow2(F32Bits + 1) \/ (r = 0 /\ q # 0) THEN [q |-> q, r |-> r, e |-> e]
    ELSE F32LongDiv(32 * q + ((32 * r) \div b), (32 * r) % b, b, e - 5)

\* a / b, b # 0.
F32Div(a, b) ==
    IF a.m = 0 THEN a
    ELSE LET d == F32LongDiv(a.m \div b.m, a.m % b.m, b.m, 0)
         IN  F32Round(d.q, d.e + a.e - b.e, d.r # 0)

\* a * b.
F32Mul(a, b) == F32Round(a.m * b.m, a.e + b.e, FALSE)

\* a + b.
F32Add(a, b) ==
    IF a.m = 0 THEN b
    ELSE IF b.m = 0 THEN a
    ELSE LET e == min(a.e, b.e)
         IN  F32Round(a.m * Pow2(a.e - e) + b.m * Pow2(b.e - e), e, FALSE)

\* a < b.
F32Lt(a, b) ==
    LET e == min(a.e, b.e)
    IN  a.m * Pow2(a.e - e) < b.m * Pow2(b.e - e)

\* `a as u16`: truncation toward zero, saturating at u16::MAX.
F32ToU16(a) ==
    IF a.e >= 0
    THEN (IF a.e > 16 \/ a.m * Pow2(a.e) > U16Max THEN U16Max ELSE a.m * Pow2(a.e))
    ELSE IF -a.e > 30 THEN 0 ELSE a.m \div Pow2(-a.e)

\* std::f32::consts::FRAC_1_SQRT_2 = 0.70710677 = 11863283 * 2^-24.
FRAC_1_SQRT_2 == [m |-> 11863283, e |-> -24]

F32One == [m |-> 1, e |-> 0]

VARIABLES hw, checked, le, dc, phase, op, fault, bus, failed, panicked, init_failed,
          pins

vars ==
    <<hw, checked, le, dc, phase, op, fault, bus, failed, panicked, init_failed, pins>>

(***************************************************************************)
(* Values of the driver.                                                   *)
(***************************************************************************)
\* command::Instruction: the opcodes the driver uses, with the discriminants
\* of the ST7735 command set.
Instruction ==
    [SWRESET |-> 1, SLPOUT |-> 17, DISPON |-> 41, CASET |-> 42, RASET |-> 43,
     RAMWR |-> 44, MADCTL |-> 54, COLMOD |-> 58]

\* A mutant of Orientation: the two landscape discriminants change places.
Orientation_landscapes_swapped ==
    [Portrait |-> 0, Landscape |-> 160, PortraitSwapped |-> 192,
     LandScapeSwapped |-> 96]

\* Orientation and its discriminants.
Orientation ==
    [Portrait |-> 0, Landscape |-> 96, PortraitSwapped |-> 192,
     LandScapeSwapped |-> 160]

\* num::ToPrimitive::to_u8 on a field-less enum: its discriminant.
to_u8(table, variant) == table[variant] % 256

\* Option<u64>: None is the empty sequence, Some(d) is <<d>>.
None == <<>>

Some(d) == <<d>>

\* command::Command.
Command(instruction, delay, arguments) ==
    [instruction |-> instruction, delay |-> delay, arguments |-> arguments]

\* A u16 or u32 as its base-256 digits, most significant first.
Digits16(v) == <<v \div 256, v % 256>>

Digits32(v) ==
    <<v \div 16777216, (v \div 65536) % 256, (v \div 256) % 256, v % 256>>

Reverse(s) == [i \in 1..Len(s) |-> s[Len(s) + 1 - i]]

\* A mutant of to_be: the conversion left out, `value` for `value.to_be()`.
to_be_omitted(host_le, digits) == digits

\* u16::to_be / u32::to_be: the value whose memory image on this host is the
\* big-endian image of v; a byte swap on a little-endian host.
to_be(host_le, digits) == IF host_le THEN Reverse(digits) ELSE digits

\* std::mem::transmute to [u8; N]: the bytes of the value in memory order.
transmute(host_le, digits) == IF host_le THEN Reverse(digits) ELSE digits

(***************************************************************************)
(* Faults of the transport.  An "io" fault makes the write that carries    *)
(* byte number `at` of the operation return Err (Spidev::write on the      *)
(* hardware path, Pin::set_value on MOSI on the bit-banged path); a "pin"  *)
(* fault makes the set_value on the data/command line before that byte     *)
(* return Err.                                                             *)
(***************************************************************************)
NoFault == [kind |-> "none", at |-> 0]

Faults ==
    {NoFault} \cup [kind : {"io", "pin"}, at : 1..MaxFaultAt]

(***************************************************************************)
(* The receiver `self` while an operation runs: the session's fields, the  *)
(* environment, and what the operation has done so far.                    *)
(*   bus     the bytes written and the delays waited, in order             *)
(*   dc      the level of the data/command line                            *)
(*   failed  the positions in bus of the bytes whose write returned Err    *)
(*   panic   the operation panicked (and sent nothing after that)          *)
(***************************************************************************)
Self(f) ==
    [hw |-> hw, checked |-> checked, le |-> le, fault |-> f, dc |-> dc,
     bus |-> <<>>, failed |-> {}, panic |-> FALSE]

Panic(self) == [self EXCEPT !.panic = TRUE]

Byte(mode, value) == [t |-> "byte", dc |-> mode, v |-> value]

Sleep(mode, ms) == [t |-> "sleep", dc |-> mode, v |-> ms]

\* Every operator below takes the receiver as the statement before it left it
\* and does nothing once a panic is unwinding, so a method body reads inside
\* out: the innermost call is its first statement.

\* self.dc.unwrap().set_value(mode).expect(..): panics if the pin write fails.
dc_set_value(self, mode) ==
    IF self.panic THEN self
    ELSE IF self.fault.kind = "pin" /\ self.fault.at = Len(self.bus) + 1
    THEN Panic(self)
    ELSE [self EXCEPT !.dc = mode]

\* spi.write(&bytes);  the Result is dropped: an Err changes nothing.
spi_write(self, bytes) ==
    IF self.panic THEN self
    ELSE LET n == Len(self.bus)
             hit == self.fault.kind = "io" /\ self.fault.at \in (n + 1)..(n + Len(bytes))
         IN  [self EXCEPT
                !.bus = @ \o [i \in 1..Len(bytes) |-> Byte(self.dc, bytes[i])],
                !.failed = IF hit THEN @ \cup (n + 1)..(n + Len(bytes)) ELSE @]

\* A mutant of bitbang: least significant bit first, value & (0x01 << bit).
bitbang_lsb_first(value) ==
    [k \in 1..24 |->
        LET bit == (k - 1) \div 3
        IN  CASE k % 3 = 1 ->
                    [pin |-> "mosi",
                     level |-> IF (value \div Pow2(bit)) % 2 # 0 THEN 1 ELSE 0]
              [] k % 3 = 2 -> [pin |-> "clk", level |-> 1]
              [] OTHER -> [pin |-> "clk", level |-> 0]]

\* The pin writes of the bit-banged branch of write_byte, after the
\* data/command line is set: for each bit from 7 down to 0, MOSI takes
\* value & (0x80 >> bit) (Pin::set_value drives high for any non-zero value)
\* and pulse_clock raises and lowers the clock.
bitbang(value) ==
    [k \in 1..24 |->
        LET bit == (k - 1) \div 3
        IN  CASE k % 3 = 1 ->
                    [pin |-> "mosi",
                     level |-> IF (value \div Pow2(7 - bit)) % 2 # 0 THEN 1 ELSE 0]
              [] k % 3 = 2 -> [pin |-> "clk", level |-> 1]
              [] OTHER -> [pin |-> "clk", level |-> 0]]

\* The level of `pin` just before pin write k; the lines start low.
LevelBefore(writes, pin, k) ==
    LET before == {j \in 1..(k - 1) : writes[j].pin = pin}
    IN  IF before = {} THEN 0
        ELSE writes[CHOOSE j \in before : \A i \in before : i <= j].level

\* The pin writes that raise the clock.
RisingEdges(writes) ==
    {k \in 1..Len(writes) :
        writes[k].pin = "clk" /\ writes[k].level = 1 /\ LevelBefore(writes, "clk", k) = 0}

\* What the panel shifts in from a run of pin writes: it samples MOSI on each
\* rising edge of the clock, most significant bit first, into an 8-bit shift
\* register.  Bit j of the result is MOSI at the edge that has j edges after it.
shift_in(writes) ==
    LET edges == RisingEdges(writes)
        after(k) == Cardinality({i \in edges : i > k})
        bit(j) == IF \E k \in edges : after(k) = j
                  THEN LevelBefore(writes, "mosi", CHOOSE k \in edges : after(k) = j)
                  ELSE 0
    IN  CHOOSE v \in 0..255 : \A j \in 0..7 : (v \div Pow2(j)) % 2 = bit(j)

\* The byte the panel receives for each byte value written bit by bit.
clocked_in == [value \in 0..255 |-> shift_in(bitbang(value))]

\* write_byte(value, data).
write_byte(self, value, data) ==
    IF self.panic THEN self
    ELSE LET s == dc_set_value(self, IF data THEN 1 ELSE 0)
             n == Len(s.bus) + 1
         IN  IF s.panic THEN s
             ELSE IF s.hw THEN spi_write(s, <<value>>)
             ELSE [s EXCEPT
                     !.bus = Append(@, Byte(s.dc, clocked_in[value])),
                     !.failed = IF s.fault.kind = "io" /\ s.fault.at = n
                                THEN @ \cup {n} ELSE @]

\* write_word(value).
write_word(self, value) ==
    IF self.panic THEN self
    ELSE LET bytes == transmute(self.le, to_be(self.le, Digits16(value)))
         IN  write_byte(write_byte(self, bytes[1], TRUE), bytes[2], TRUE)

\* The loop over cmd.arguments in execute_command.
RECURSIVE write_arguments(_, _)
write_arguments(self, arguments) ==
    IF arguments = <<>> \/ self.panic THEN self
    ELSE write_arguments(write_byte(self, Head(arguments), TRUE), Tail(arguments))

\* std::thread::sleep(Duration::from_millis(d)).
sleep(self, d) ==
    IF self.panic THEN self ELSE [self EXCEPT !.bus = Append(@, Sleep(self.dc, d))]

\* A mutant of execute_command: the arguments are always sent and the delay,
\* when there is one, is waited after them.
execute_command_arguments_then_delay(self, cmd) ==
    IF self.panic THEN self
    ELSE LET s == write_arguments(
                      write_byte(self, to_u8(Instruction, cmd.instruction), FALSE),
                      cmd.arguments)
         IN  IF cmd.delay # None THEN sleep(s, cmd.delay[1]) ELSE s

\* execute_command(cmd).
execute_command(self, cmd) ==
    IF self.panic THEN self
    ELSE LET s == write_byte(self, to_u8(Instruction, cmd.instruction), FALSE)
         IN  IF cmd.delay # None
             THEN (IF Len(cmd.arguments) > 0 THEN sleep(s, cmd.delay[1]) ELSE s)
             ELSE write_arguments(s, cmd.arguments)

\* execute_commands(commands).
RECURSIVE execute_commands(_, _)
execute_commands(self, commands) ==
    IF commands = <<>> \/ self.panic THEN self
    ELSE execute_commands(execute_command(self, Head(commands)), Tail(commands))

\* A mutant of init_commands: sleep-out issued before the software reset.
init_commands_reordered ==
    << Command("SLPOUT", Some(200), <<>>),
       Command("SWRESET", Some(200), <<>>),
       Command("DISPON", Some(100), <<>>) >>

\* The init_commands vector of init().
init_commands ==
    << Command("SWRESET", Some(200), <<>>),
       Command("SLPOUT", Some(200), <<>>),
       Command("DISPON", Some(100), <<>>) >>

\* init().
init(self) == execute_commands(self, init_commands)

\* A mutant of write_color: the hardware branch drives the data/command line
\* low, set_value(0) for set_value(1).
write_color_command_mode(self, color) ==
    IF self.panic THEN self
    ELSE LET bytes == transmute(self.le, to_be(self.le, Digits32(color)))
         IN  IF self.hw
             THEN spi_write(dc_set_value(self, 0), <<bytes[2], bytes[3], bytes[4]>>)
             ELSE write_byte(write_byte(write_byte(self, bytes[2], TRUE),
                                        bytes[3], TRUE),
                             bytes[4], TRUE)

\* A mutant of write_color: the hardware branch slices the word one byte
\* early, &bytes[0..3] for &bytes[1..4].
write_color_slice_from_zero(self, color) ==
    IF self.panic THEN self
    ELSE LET bytes == transmute(self.le, to_be(self.le, Digits32(color)))
         IN  IF self.hw
             THEN spi_write(dc_set_value(self, 1), <<bytes[1], bytes[2], bytes[3]>>)
             ELSE write_byte(write_byte(write_byte(self, bytes[2], TRUE),
                                        bytes[3], TRUE),
                             bytes[4], TRUE)

\* write_color(color).
write_color(self, color) ==
    IF self.panic THEN self
    ELSE LET bytes == transmute(self.le, to_be(self.le, Digits32(color)))
         IN  IF self.hw
             THEN spi_write(dc_set_value(self, 1), <<bytes[2], bytes[3], bytes[4]>>)
             ELSE write_byte(write_byte(write_byte(self, bytes[2], TRUE),
                                        bytes[3], TRUE),
                             bytes[4], TRUE)

\* A mutant of set_address_window: the rows are sent before the columns.
set_address_window_rows_first(self, x0, y0, x1, y1) ==
    write_word(
        write_word(
            write_byte(
                write_word(
                    write_word(
                        write_byte(self, to_u8(Instruction, "RASET"), FALSE),
                        y0),
                    y1),
                to_u8(Instruction, "CASET"), FALSE),
            x0),
        x1)

\* set_address_window(x0, y0, x1, y1).
set_address_window(self, x0, y0, x1, y1) ==
    write_word(
        write_word(
            write_byte(
                write_word(
                    write_word(
                        write_byte(self, to_u8(Instruction, "CASET"), FALSE),
                        x0),
                    x1),
                to_u8(Instruction, "RASET"), FALSE),
            y0),
        y1)

\* set_orientation(orientation).
set_orientation(self, orientation) ==
    execute_command(self,
        Command("MADCTL", None, <<to_u8(Orientation, orientation)>>))

\* A mutant of draw_pixel: the window is not set again when it is the one the
\* previous pixel used.
draw_pixel_cached_window(self, x, y, color) ==
    write_color(
        write_byte(
            IF self.bus = <<>> THEN set_address_window(self, x, y, x, y) ELSE self,
            to_u8(Instruction, "RAMWR"), FALSE),
        color)

\* draw_pixel(x, y, color).
draw_pixel(self, x, y, color) ==
    write_color(
        write_byte(set_address_window(self, x, y, x, y),
                   to_u8(Instruction, "RAMWR"), FALSE),
        color)

(***************************************************************************)
(* Shapes.                                                                 *)
(***************************************************************************)
\* b - a + 1 in u16, as in `let width = x1 - x0 + 1`.
Span(a, b) == Wrap16(Wrap16(b - a) + 1)

SpanOverflows(a, b) == b < a \/ b - a = U16Max

\* A mutant of checked_mul: the product is checked against u8.
checked_mul_u8(self, a, b) ==
    IF self.panic THEN self
    ELSE IF self.checked /\ a * b > 255 THEN Panic(self)
    ELSE self

\* A u16 product a * b as a statement: with overflow checks it panics when the
\* product leaves u16.
checked_mul(self, a, b) ==
    IF self.panic THEN self
    ELSE IF self.checked /\ MulOverflows(a, b) THEN Panic(self)
    ELSE self

\* for i in 0..n { self.write_color(color); }
\* The n passes are the first n \div 2 passes followed by the rest.
RECURSIVE repeat_color(_, _, _)
repeat_color(self, n, color) ==
    IF n = 0 \/ self.panic THEN self
    ELSE IF n = 1 THEN write_color(self, color)
    ELSE repeat_color(repeat_color(self, n \div 2, color), n - n \div 2, color)

\* draw_rect(x0, y0, x1, y1, color).
draw_rect(self, x0, y0, x1, y1, color) ==
    LET width == Span(x0, x1)
        height == Span(y0, y1)
    IN  IF self.checked /\ (SpanOverflows(x0, x1) \/ SpanOverflows(y0, y1))
        THEN Panic(self)
        ELSE repeat_color(
                 checked_mul(
                     write_byte(set_address_window(self, x0, y0, x1, y1),
                                to_u8(Instruction, "RAMWR"), FALSE),
                     width, height),
                 Mul16(width, height), color)

\* draw_horizontal_line(x0, x1, y, color).
draw_horizontal_line(self, x0, x1, y, color) ==
    IF self.checked /\ SpanOverflows(x0, x1) THEN Panic(self)
    ELSE repeat_color(
             write_byte(set_address_window(self, x0, y, x1, y),
                        to_u8(Instruction, "RAMWR"), FALSE),
             Span(x0, x1), color)

\* A mutant of draw_vertical_line: the loop runs one pass short,
\* `for i in 1..length` for `for i in 0..length`.
draw_vertical_line_exclusive(self, x, y0, y1, color) ==
    IF self.checked /\ SpanOverflows(y0, y1) THEN Panic(self)
    ELSE repeat_color(
             write_byte(set_address_window(self, x, y0, x, y1),
                        to_u8(Instruction, "RAMWR"), FALSE),
             max(Span(y0, y1), 1) - 1, color)

\* draw_vertical_line(x, y0, y1, color).
draw_vertical_line(self, x, y0, y1, color) ==
    IF self.checked /\ SpanOverflows(y0, y1) THEN Panic(self)
    ELSE repeat_color(
             write_byte(set_address_window(self, x, y0, x, y1),
                        to_u8(Instruction, "RAMWR"), FALSE),
             Span(y0, y1), color)

\* The loop of draw_line's branch m < 1.0: for x in x0..=x1.
RECURSIVE line_by_x(_, _, _, _, _, _, _)
line_by_x(self, x, x0, y0, x1, m, color) ==
    IF x > x1 \/ self.panic THEN self
    ELSE LET y == F32Add(F32Mul(F32FromInt(x - x0), m), F32FromInt(y0))
         IN  line_by_x(draw_pixel(self, x, F32ToU16(y), color),
                       x + 1, x0, y0, x1, m, color)

\* The loop of draw_line's other branch: for y in y0..=y1.
RECURSIVE line_by_y(_, _, _, _, _, _, _)
line_by_y(self, y, x0, y0, y1, m, color) ==
    IF y > y1 \/ self.panic THEN self
    ELSE LET x == F32Add(F32Div(F32FromInt(y - y0), m), F32FromInt(x0))
         IN  line_by_y(draw_pixel(self, F32ToU16(x), y, color),
                       y + 1, x0, y0, y1, m, color)

\* draw_line(x0, y0, x1, y1, color).
draw_line(self, x0, y0, x1, y1, color) ==
    IF x0 = x1 THEN draw_vertical_line(self, x0, y0, y1, color)
    ELSE IF y0 = y1 THEN draw_horizontal_line(self, x0, x1, y1, color)
    ELSE LET m == F32Div(F32FromInt(max(y1, y0) - min(y0, y1)),
                         F32FromInt(max(x1, x0) - min(x0, x1)))
         IN  IF F32Lt(m, F32One)
             THEN line_by_x(self, x0, x0, y0, x1, m, color)
             ELSE line_by_y(self, y0, x0, y0, y1, m, color)

\* One draw_pixel call of draw_circle: draw_pixel(cx + sx * dx, cy + sy * dy,
\* color) with sx, sy in {1, -1}; the sums are u16.
circle_pixel(self, cx, sx, dx, cy, sy, dy, color) ==
    IF self.panic THEN self
    ELSE IF self.checked /\ ~(Fits16(cx + sx * dx) /\ Fits16(cy + sy * dy))
    THEN Panic(self)
    ELSE draw_pixel(self, Wrap16(cx + sx * dx), Wrap16(cy + sy * dy), color)

\* The eight draw_pixel calls of one pass of draw_circle's loop.
circle_octants(self, x, y, x_pos, y_pos, color) ==
    circle_pixel(
    circle_pixel(
    circle_pixel(
    circle_pixel(
    circle_pixel(
    circle_pixel(
    circle_pixel(
    circle_pixel(self, x_pos, 1, x, y_pos, 1, y, color),
                 x_pos, 1, x, y_pos, -1, y, color),
                 x_pos, -1, x, y_pos, 1, y, color),
                 x_pos, -1, x, y_pos, -1, y, color),
                 x_pos, 1, y, y_pos, 1, x, color),
                 x_pos, 1, y, y_pos, -1, x, color),
                 x_pos, -1, y, y_pos, 1, x, color),
                 x_pos, -1, y, y_pos, -1, x, color)

\* The loop of draw_circle: for x in 0..x_end.
RECURSIVE circle_loop(_, _, _, _, _, _, _)
circle_loop(self, x, x_end, x_pos, y_pos, radius, color) ==
    IF x >= x_end \/ self.panic THEN self
    ELSE LET r2 == Mul16(radius, radius)
             x2 == Mul16(x, x)
             ovf == MulOverflows(radius, radius) \/ MulOverflows(x, x) \/ r2 < x2
             y == sqrt(Wrap16(r2 - x2))
         IN  IF self.checked /\ ovf THEN Panic(self)
             ELSE circle_loop(circle_octants(self, x, y, x_pos, y_pos, color),
                              x + 1, x_end, x_pos, y_pos, radius, color)

\* draw_circle(x_pos, y_pos, radius, color).
draw_circle(self, x_pos, y_pos, radius, color) ==
    LET x_end == F32ToU16(F32Add(F32Mul(FRAC_1_SQRT_2, F32FromInt(radius)), F32One))
    IN  circle_loop(self, 0, x_end, x_pos, y_pos, radius, color)

\* The second draw_vertical_line call of one pass of draw_filled_circle's
\* loop: self.draw_vertical_line(x_pos - x, y0, y1, color).
left_vertical_line(self, x_pos, x, y0, y1, color) ==
    IF self.panic THEN self
    ELSE IF self.checked /\ x_pos < x THEN Panic(self)
    ELSE draw_vertical_line(self, Wrap16(x_pos - x), y0, y1, color)

\* The loop of draw_filled_circle: for x in 0..radius.
RECURSIVE filled_circle_loop(_, _, _, _, _, _)
filled_circle_loop(self, x, x_pos, y_pos, radius, color) ==
    IF x >= radius \/ self.panic THEN self
    ELSE LET r2 == Mul16(radius, radius)
             x2 == Mul16(x, x)
             y == sqrt(Wrap16(r2 - x2))
             y0 == Wrap16(y_pos - y)
             y1 == Wrap16(y_pos + y)
             ovf == \/ MulOverflows(x, x) \/ r2 < x2
                    \/ y_pos < y \/ ~Fits16(y_pos + y) \/ ~Fits16(x_pos + x)
         IN  IF self.checked /\ ovf THEN Panic(self)
             ELSE filled_circle_loop(
                      left_vertical_line(
                          draw_vertical_line(self, Wrap16(x_pos + x), y0, y1, color),
                          x_pos, x, y0, y1, color),
                      x + 1, x_pos, y_pos, radius, color)

\* draw_filled_circle(x_pos, y_pos, radius, color).
draw_filled_circle(self, x_pos, y_pos, radius, color) ==
    filled_circle_loop(checked_mul(self, radius, radius), 0, x_pos, y_pos, radius, color)

\* fill_screen(color).
fill_screen(self, color) == draw_rect(self, 0, 0, 127, 159, color)

\* clear_screen().
clear_screen(self) == draw_rect(self, 0, 0, 127, 159, 0)

(***************************************************************************)
(* The state machine.                                                      *)
(*   phase     "none" before a constructor ran, "ready" once it returned,  *)
(*             "dead" after a panic unwound the caller                     *)
(*   dc        the level the data/command line was left at                 *)
(*   op        the operation that ran last and its arguments, "idle" once  *)
(*             the caller has taken its result                             *)
(*   fault     the transport fault injected into it                        *)
(*   bus, failed, panicked   what that operation did                       *)
(*   init_failed   a bus write of the session's init() returned Err        *)
(*   pins      the single pin writes, in order; only PinSpec, which runs   *)
(*             write_byte one pin write at a time, records them            *)
(***************************************************************************)
SmallCoords == 0..MaxCoord

\* Coordinates: the small ones, and two far ones where u16 arithmetic wraps.
Coords == SmallCoords \cup {255, U16Max}

Radii == 0..MaxRadius

\* 0xFF0000, the colour of the documentation's examples, and 0x01020304,
\* whose four bytes differ.
Colors == {16711680, 16909060}

Call(name, args, color) == [name |-> name, args |-> args, color |-> color]

Init ==
    /\ hw = FALSE
    /\ checked \in BOOLEAN
    /\ le \in BOOLEAN
    /\ dc \in {0, 1}
    /\ phase = "none"
    /\ op = Call("none", <<>>, 0)
    /\ fault = NoFault
    /\ bus = <<>>
    /\ failed = {}
    /\ panicked = FALSE
    /\ init_failed = FALSE
    /\ pins = <<>>

\* The effect of an operation that ran to `s` on the state.
Ran(call, f, s) ==
    /\ op' = call
    /\ fault' = f
    /\ dc' = s.dc
    /\ bus' = s.bus
    /\ failed' = s.failed
    /\ panicked' = s.panic
    /\ phase' = IF s.panic THEN "dead" ELSE "ready"
    /\ UNCHANGED <<checked, le, pins>>

\* The session is constructed and the caller holds it, between two calls.
Idle == phase = "ready" /\ op.name = "idle"

\* The call returns: the caller has the session back, and the record of the
\* next call starts empty.  The pins stay as the call left them.
Return ==
    /\ phase = "ready"
    /\ op.name # "idle"
    /\ op' = Call("idle", <<>>, 0)
    /\ fault' = NoFault
    /\ bus' = <<>>
    /\ failed' = {}
    /\ UNCHANGED <<hw, checked, le, dc, phase, panicked, init_failed, pins>>

\* new_with_spi(spi, dc): the session owns the SPI device; runs init().
NewWithSpi ==
    /\ phase = "none"
    /\ hw' = TRUE
    /\ \E f \in Faults :
          Ran(Call("new_with_spi", <<>>, 0), f, init([Self(f) EXCEPT !.hw = TRUE]))
    /\ init_failed' = (failed' # {})

\* new(rst, clk, dc, mosi): the session owns the pins; runs init().
New ==
    /\ phase = "none"
    /\ hw' = FALSE
    /\ \E f \in Faults :
          Ran(Call("new", <<>>, 0), f, init([Self(f) EXCEPT !.hw = FALSE]))
    /\ init_failed' = (failed' # {})

SetOrientation ==
    /\ Idle
    /\ \E o \in DOMAIN Orientation, f \in Faults :
          Ran(Call("set_orientation", <<o>>, 0), f, set_orientation(Self(f), o))
    /\ UNCHANGED <<hw, init_failed>>

DrawPixel ==
    /\ Idle
    /\ \E x \in Coords, y \in Coords, c \in Colors, f \in Faults :
          Ran(Call("draw_pixel", <<x, y>>, c), f, draw_pixel(Self(f), x, y, c))
    /\ UNCHANGED <<hw, init_failed>>

DrawRect ==
    /\ Idle
    /\ \E x0 \in Coords, y0 \in Coords, x1 \in Coords, y1 \in Coords,
          c \in Colors, f \in Faults :
          /\ Mul16(Span(x0, x1), Span(y0, y1)) <= MaxWords
          /\ Ran(Call("draw_rect", <<x0, y0, x1, y1>>, c), f,
                 draw_rect(Self(f), x0, y0, x1, y1, c))
    /\ UNCHANGED <<hw, init_failed>>

DrawHorizontalLine ==
    /\ Idle
    /\ \E x0 \in Coords, x1 \in Coords, y \in Coords, c \in Colors, f \in Faults :
          /\ Span(x0, x1) <= MaxWords
          /\ Ran(Call("draw_horizontal_line", <<x0, x1, y>>, c), f,
                 draw_horizontal_line(Self(f), x0, x1, y, c))
    /\ UNCHANGED <<hw, init_failed>>

DrawVerticalLine ==
    /\ Idle
    /\ \E x \in Coords, y0 \in Coords, y1 \in Coords, c \in Colors, f \in Faults :
          /\ Span(y0, y1) <= MaxWords
          /\ Ran(Call("draw_vertical_line", <<x, y0, y1>>, c), f,
                 draw_vertical_line(Self(f), x, y0, y1, c))
    /\ UNCHANGED <<hw, init_failed>>

DrawLine ==
    /\ Idle
    /\ \E x0 \in Coords, y0 \in Coords, x1 \in Coords, y1 \in Coords,
          c \in Colors, f \in Faults :
          /\ {x0, y0, x1, y1} \subseteq SmallCoords \/ (x0 = x1 /\ y0 = y1)
          /\ x0 = x1 => Span(y0, y1) <= MaxWords
          /\ (x0 # x1 /\ y0 = y1) => Span(x0, x1) <= MaxWords
          /\ Ran(Call("draw_line", <<x0, y0, x1, y1>>, c), f,
                 draw_line(Self(f), x0, y0, x1, y1, c))
    /\ UNCHANGED <<hw, init_failed>>

DrawCircle ==
    /\ Idle
    /\ \E x \in Coords, y \in Coords, r \in Radii, c \in Colors, f \in Faults :
          Ran(Call("draw_circle", <<x, y, r>>, c), f, draw_circle(Self(f), x, y, r, c))
    /\ UNCHANGED <<hw, init_failed>>

Next ==
    \/ Return
    \/ NewWithSpi
    \/ New
    \/ SetOrientation
    \/ DrawPixel
    \/ DrawRect
    \/ DrawHorizontalLine
    \/ DrawVerticalLine
    \/ DrawLine
    \/ DrawCircle

Spec == Init /\ [][Next]_vars

(***************************************************************************)
(* Reading the bus the way the panel does.                                 *)
(***************************************************************************)
IsCommand(e) == e.t = "byte" /\ e.dc = 0

IsData(e) == e.t = "byte" /\ e.dc = 1

IsOpcode(e, name) == IsCommand(e) /\ e.v = Instruction[name]

\* The number of data bytes that follow position i without a break.
DataRun(b, i) ==
    LET stops == {j \in (i + 1)..Len(b) : ~IsData(b[j])}
    IN  IF stops = {} THEN Len(b) - i
        ELSE (CHOOSE j \in stops : \A k \in stops : j <= k) - i - 1

\* The 16-bit word the panel reads from the two bytes at i and i + 1.
WordAt(b, i) == 256 * b[i].v + b[i + 1].v

\* The positions of the RAMWR commands that have a whole window before them.
Writes(b) ==
    {i \in 11..Len(b) :
        /\ IsOpcode(b[i], "RAMWR")
        /\ IsOpcode(b[i - 10], "CASET")
        /\ IsOpcode(b[i - 5], "RASET")
        /\ \A k \in {1, 2, 3, 4, 6, 7, 8, 9} : IsData(b[i - k])}

\* The pixels the memory write at i fills: the first words of the window
\* [xs, xe] x [ys, ye], row by row, one per three data bytes.
PixelsOf(b, i) ==
    LET xs == WordAt(b, i - 9)
        xe == WordAt(b, i - 7)
        ys == WordAt(b, i - 4)
        ye == WordAt(b, i - 2)
        n == DataRun(b, i) \div 3
    IN  IF xs > xe \/ ys > ye \/ n = 0 THEN {}
        ELSE LET w == xe - xs + 1
                 last == min(n, w * (ye - ys + 1)) - 1
             IN  {<<xs + (k % w), ys + (k \div w)>> : k \in 0..last}

\* Every pixel the operation wrote.
Plotted == UNION {PixelsOf(bus, i) : i \in Writes(bus)}

\* What the claims expect on the bus.
CommandByte(name) == Byte(0, Instruction[name])

WordBytes(v) == <<Byte(1, v \div 256), Byte(1, v % 256)>>

ColorBytes(c) ==
    <<Byte(1, (c \div 65536) % 256), Byte(1, (c \div 256) % 256), Byte(1, c % 256)>>

WindowBytes(x0, y0, x1, y1) ==
    <<CommandByte("CASET")>> \o WordBytes(x0) \o WordBytes(x1)
        \o <<CommandByte("RASET")>> \o WordBytes(y0) \o WordBytes(y1)

Constructed == op.name \in {"new", "new_with_spi"}

(***************************************************************************)
(* C1.  draw_rect on an ordered rectangle emits one window, one RAMWR and  *)
(* (x1 - x0 + 1) * (y1 - y0 + 1) colour words.                             *)
(***************************************************************************)
\* The bytes from position i on are k whole colour words of colour c.
IsColorRun(b, i, c) ==
    /\ (Len(b) - i + 1) % 3 = 0
    /\ \A j \in i..Len(b) : b[j] = ColorBytes(c)[((j - i) % 3) + 1]

\* C1: for every rectangle with x0 <= x1 and y0 <= y1, draw_rect emits the
\* window, RAMWR, then exactly (x1-x0+1)*(y1-y0+1) colour words of the
\* requested colour, and nothing else.
C1_RectEmitsAreaWords ==
    (op.name = "draw_rect" /\ fault = NoFault
        /\ op.args[1] <= op.args[3] /\ op.args[2] <= op.args[4])
    => LET w == op.args[3] - op.args[1] + 1
           h == op.args[4] - op.args[2] + 1
           k == (Len(bus) - 11) \div 3
       IN  /\ ~panicked
           /\ Len(bus) >= 11
           /\ SubSeq(bus, 1, 10)
                 = WindowBytes(op.args[1], op.args[2], op.args[3], op.args[4])
           /\ bus[11] = CommandByte("RAMWR")
           /\ IsColorRun(bus, 12, op.color)
           /\ k % w = 0 /\ k \div w = h

(***************************************************************************)
(* C2.  Opcodes go out in command mode, everything else in data mode.      *)
(***************************************************************************)
\* The number of parameter bytes each opcode takes (RAMWR: colour words).
Arity ==
    [SWRESET |-> 0, SLPOUT |-> 0, DISPON |-> 0, CASET |-> 4, RASET |-> 4,
     MADCTL |-> 1, COLMOD |-> 1]

\* The bus is a run of transactions: an opcode in command mode, then its
\* parameters in data mode.  Only the last transaction may be short, and only
\* when the operation panicked in the middle of it.
WellFramed(b) ==
    /\ (b # <<>> /\ b[1].t = "byte") => IsCommand(b[1])
    /\ \A i \in 1..Len(b) :
          IsCommand(b[i])
          => \E name \in DOMAIN Instruction :
                /\ b[i].v = Instruction[name]
                /\ LET n == DataRun(b, i)
                       cut == panicked /\ i + n = Len(b)
                   IN  /\ name = "RAMWR" => (n % 3 = 0 \/ cut)
                       /\ name # "RAMWR" => (n = Arity[name] \/ (cut /\ n < Arity[name]))

\* C2: in every byte the driver puts on the bus, on both paths, the
\* data/command line is low exactly when the byte is an opcode: the bus reads
\* as opcodes in command mode, each followed by its parameter, coordinate or
\* colour bytes in data mode.
C2_ModeMatchesRole == WellFramed(bus)

C2_Witness ==
    /\ op.name = "draw_rect" /\ hw /\ ~panicked
    /\ Len(bus) = 11 + 3 * 4

(***************************************************************************)
(* C3.  Every memory write sets its own window first.                      *)
(***************************************************************************)
Drawing ==
    op.name \in {"draw_pixel", "draw_rect", "draw_horizontal_line",
                 "draw_vertical_line", "draw_line", "draw_circle"}

\* C3: every RAMWR command on the bus is immediately preceded, in the same
\* call, by CASET with two 16-bit words and RASET with two 16-bit words, with
\* no other command in between; no colour byte is written outside a window
\* set by the same call.
C3_WindowBeforeEveryRamwr ==
    /\ \A i \in 1..Len(bus) : IsOpcode(bus[i], "RAMWR") => i \in Writes(bus)
    /\ (Drawing /\ bus # <<>>) => IsOpcode(bus[1], "CASET")
    /\ (op.name = "draw_pixel" /\ Len(bus) >= 11)
          => SubSeq(bus, 1, 10)
                = WindowBytes(op.args[1], op.args[2], op.args[1], op.args[2])

C3_Witness ==
    /\ op.name = "draw_line" /\ ~panicked
    /\ Cardinality(Writes(bus)) = 3

(***************************************************************************)
(* C4.  Most significant byte first, on any host.                          *)
(***************************************************************************)
\* C4: write_word(v) sends v div 256 then v mod 256, and write_color(c)
\* sends bits 23..16, 15..8, 7..0 of c and never its top byte, whatever the
\* byte order of the host.
C4_BigEndianOnTheWire ==
    (op.name = "draw_pixel" /\ ~panicked)
    => bus = WindowBytes(op.args[1], op.args[2], op.args[1], op.args[2])
               \o <<CommandByte("RAMWR")>> \o ColorBytes(op.color)

C4_Witness ==
    /\ op.name = "draw_pixel" /\ ~panicked /\ le
    /\ op.args = <<1, 255>> /\ op.color = 16909060
    /\ bus[12].v = 2

(***************************************************************************)
(* C5.  The command sequence of init().                                    *)
(***************************************************************************)
\* The opcodes on the bus, in order.
Opcodes(b) ==
    LET commands == SelectSeq(b, IsCommand)
    IN  [i \in 1..Len(commands) |-> commands[i].v]

RECURSIVE DelayAfter(_, _)
DelayAfter(b, i) ==
    IF i + 1 > Len(b) \/ b[i + 1].t # "sleep" THEN 0
    ELSE b[i + 1].v + DelayAfter(b, i + 1)

\* C6: during init at least 150 ms pass between the software-reset opcode
\* and the next byte, and at least 10 ms after sleep-out and after
\* display-on.
C6_SettleDelays ==
    (Constructed /\ ~panicked)
    => \A i \in 1..Len(bus) :
          /\ IsOpcode(bus[i], "SWRESET") => DelayAfter(bus, i) >= 150
          /\ IsOpcode(bus[i], "SLPOUT") => DelayAfter(bus, i) >= 10
          /\ IsOpcode(bus[i], "DISPON") => DelayAfter(bus, i) >= 10

(***************************************************************************)
(* C7.  A failed bus write stops the operation and is reported.            *)
(***************************************************************************)
\* What the caller gets back: every operation of the driver returns (), or
\* the panic unwinds through the caller.
Result == IF panicked THEN "panic" ELSE "unit"

\* C7: if a bus write fails at some byte of an operation, no further byte of
\* that operation is sent and the caller is told of the failure: the call
\* does not come back as a plain ().
C7_FailureStopsAndIsReported ==
    failed # {}
    => /\ \A i \in 1..Len(bus) : \E k \in failed : i <= k
       /\ Result # "unit"

(***************************************************************************)
(* C8.  draw_line plots a connected path between its end points.           *)
(***************************************************************************)
Abs(n) == IF n < 0 THEN -n ELSE n

\* The pixels of P at position t of the dominant axis.
At(P, alongX, t) == {p \in P : (IF alongX THEN p[1] ELSE p[2]) = t}

\* P is a path from (x0, y0) to (x1, y1): one pixel at each position of the
\* dominant axis between the end points and none elsewhere, neighbours at
\* most one unit apart on the other axis, both end points in it.
IsPath(P, x0, y0, x1, y1) ==
    LET alongX == Abs(x1 - x0) >= Abs(y1 - y0)
        from == IF alongX THEN min(x0, x1) ELSE min(y0, y1)
        to == IF alongX THEN max(x0, x1) ELSE max(y0, y1)
        other(t) == LET p == CHOOSE q \in At(P, alongX, t) : TRUE
                    IN  IF alongX THEN p[2] ELSE p[1]
    IN  /\ <<x0, y0>> \in P
        /\ <<x1, y1>> \in P
        /\ \A p \in P : (IF alongX THEN p[1] ELSE p[2]) \in from..to
        /\ \A t \in from..to : Cardinality(At(P, alongX, t)) = 1
        /\ \A t \in from..(to - 1) : Abs(other(t + 1) - other(t)) <= 1

\* C8: for any two points, in any order and with any slope sign, draw_line
\* plots a connected path from (x0,y0) to (x1,y1).
C8_LineConnected ==
    (op.name = "draw_line" /\ fault = NoFault)
    => /\ ~panicked
       /\ IsPath(Plotted, op.args[1], op.args[2], op.args[3], op.args[4])

(***************************************************************************)
(* C9.  draw_circle is symmetric about both axes through its centre.       *)
(***************************************************************************)
\* C9: whenever draw_circle plots (cx+dx, cy+dy) it plots (cx-dx, cy+dy) and
\* (cx+dx, cy-dy) too, for every centre and radius.
C9_CircleSymmetric ==
    (op.name = "draw_circle" /\ fault = NoFault)
    => \A p \in Plotted :
          /\ <<2 * op.args[1] - p[1], p[2]>> \in Plotted
          /\ <<p[1], 2 * op.args[2] - p[2]>> \in Plotted

(***************************************************************************)
(* C10.  Inverted bounds are rejected before any bus traffic.              *)
(***************************************************************************)
Inverted ==
    \/ op.name = "draw_rect" /\ (op.args[1] > op.args[3] \/ op.args[2] > op.args[4])
    \/ op.name = "draw_horizontal_line" /\ op.args[1] > op.args[2]
    \/ op.name = "draw_vertical_line" /\ op.args[2] > op.args[3]
    \/ op.name = "draw_line" /\ op.args[1] = op.args[3] /\ op.args[2] > op.args[4]
    \/ op.name = "draw_line" /\ op.args[2] = op.args[4] /\ op.args[1] > op.args[3]

\* C10: a rectangle or axis-aligned line with inverted bounds is rejected
\* before any byte is sent on the bus.
C10_InvertedBoundsRejected == Inverted => (bus = <<>> /\ Result # "unit")

(***************************************************************************)
(* C11.  draw_pixel is the one-pixel window, one RAMWR and one colour      *)
(* word, and is what draw_rect sends for the same single pixel.            *)
(***************************************************************************)
\* C11: draw_pixel(x, y, c) puts on the bus the bytes of
\* set_address_window(x, y, x, y), one RAMWR opcode and the colour word c,
\* byte for byte, and draw_rect(x, y, x, y, c) called on the same session
\* (whatever level the data/command line was at) puts the same bytes there
\* and ends the same way.
C11_PixelIsUnitRect ==
    op.name = "draw_pixel"
    => LET x == op.args[1]
           y == op.args[2]
       IN  /\ ~panicked
              => bus = WindowBytes(x, y, x, y) \o <<CommandByte("RAMWR")>>
                          \o ColorBytes(op.color)
           /\ \A d \in {0, 1} :
                 LET r == draw_rect([Self(fault) EXCEPT !.dc = d], x, y, x, y, op.color)
                 IN  bus = r.bus /\ panicked = r.panic

C11_Witness ==
    /\ op.name = "draw_pixel" /\ ~hw /\ ~panicked
    /\ op.args = <<255, 2>> /\ Len(bus) = 14

(***************************************************************************)
(* C12.  A zero-length line is one pixel.                                  *)
(***************************************************************************)
\* C12: draw_line(x, y, x, y, c) sets one window (x, y, x, y), sends one
\* RAMWR and exactly one colour word: it plots the pixel (x, y) and no other.
C12_ZeroLengthLine ==
    (op.name = "draw_line" /\ op.args[1] = op.args[3] /\ op.args[2] = op.args[4])
    => LET x == op.args[1]
           y == op.args[2]
       IN  /\ fault = NoFault => ~panicked
           /\ ~panicked
              => /\ bus = WindowBytes(x, y, x, y) \o <<CommandByte("RAMWR")>>
                            \o ColorBytes(op.color)
                 /\ Plotted = {<<x, y>>}

C12_Witness ==
    /\ op.name = "draw_line" /\ op.args = <<2, 65535, 2, 65535>>
    /\ ~panicked /\ Plotted = {<<2, 65535>>}

(***************************************************************************)
(* C13.  set_orientation sends MADCTL and the mode byte of its argument.   *)
(***************************************************************************)
\* The mode bytes the claim names: 0x00, 0x60, 0xC0, 0xA0.
C13_Encoding ==
    [Portrait |-> 0, Landscape |-> 96, PortraitSwapped |-> 192,
     LandScapeSwapped |-> 160]

\* C13: set_orientation(o) sends exactly one MADCTL opcode in command mode
\* and then exactly one data byte, the fixed encoding of o.  It does so from
\* every state a session can be in, so the last mode byte sent is always the
\* one of the last call, and a repeated call sends the same two bytes again.
C13_OrientationBytes ==
    (op.name = "set_orientation" /\ ~panicked)
    => bus = <<CommandByte("MADCTL"), Byte(1, C13_Encoding[op.args[1]])>>

C13_Witness ==
    /\ op.name = "set_orientation" /\ op.args = <<"LandScapeSwapped">>
    /\ ~panicked /\ Len(bus) = 2 /\ bus[2].v = 160

(***************************************************************************)
(* C14.  Only a session whose init() went through cleanly draws.           *)
(***************************************************************************)
\* C14: no byte of a drawing operation is sent on a session whose
\* initialization sequence met a transport failure.
C14_DrawsOnlyAfterCleanInit ==
    (Drawing /\ bus # <<>>) => ~init_failed

(***************************************************************************)
(* C15.  execute_command either waits or sends parameters.                 *)
(*                                                                         *)
(* execute_command is private; the public operations only hand it the      *)
(* three commands of init() and MADCTL.  CommandSpec calls it on a         *)
(* constructed session with commands of every shape: with and without a    *)
(* delay, with and without arguments.                                      *)
(***************************************************************************)
Delays == {None, Some(100)}

Arguments == {<<>>, <<7>>, <<7, 9>>}

ExecuteCommand ==
    /\ Idle
    /\ \E i \in DOMAIN Instruction, d \in Delays, a \in Arguments, f \in Faults :
          Ran(Call("execute_command", <<i, d, a>>, 0), f,
              execute_command(Self(f), Command(i, d, a)))
    /\ UNCHANGED <<hw, init_failed>>

CommandNext ==
    \/ Return
    \/ NewWithSpi
    \/ New
    \/ ExecuteCommand

CommandSpec == Init /\ [][CommandNext]_vars

\* C15: an issuance of a command never both waits a delay and sends
\* parameter bytes, and an issuance that returns has sent the opcode exactly
\* once, as its first byte.
C15_DelayOrParameters ==
    op.name = "execute_command"
    => LET slept == \E i \in 1..Len(bus) : bus[i].t = "sleep"
           parameters == {i \in 1..Len(bus) : IsData(bus[i])}
           opcodes == {i \in 1..Len(bus) : IsCommand(bus[i])}
       IN  /\ ~(slept /\ parameters # {})
           /\ ~panicked => (opcodes = {1} /\ bus[1].v = Instruction[op.args[1]])

C15_Witness ==
    /\ op.name = "execute_command" /\ op.args = <<"MADCTL", Some(100), <<7, 9>>>>
    /\ ~panicked
    /\ bus = <<CommandByte("MADCTL"), Sleep(0, 100)>>

(***************************************************************************)
(* C16.  The two transports carry the same stream.                         *)
(***************************************************************************)
\* The public operation `call` run on `self`.
Run(call, self) ==
    LET a == call.args
    IN  CASE call.name \in {"new_with_spi", "new"} -> init(self)
          [] call.name = "set_orientation" -> set_orientation(self, a[1])
          [] call.name = "draw_pixel" -> draw_pixel(self, a[1], a[2], call.color)
          [] call.name = "draw_rect" ->
                draw_rect(self, a[1], a[2], a[3], a[4], call.color)
          [] call.name = "draw_horizontal_line" ->
                draw_horizontal_line(self, a[1], a[2], a[3], call.color)
          [] call.name = "draw_vertical_line" ->
                draw_vertical_line(self, a[1], a[2], a[3], call.color)
          [] call.name = "draw_line" ->
                draw_line(self, a[1], a[2], a[3], a[4], call.color)
          [] call.name = "draw_circle" ->
                draw_circle(self, a[1], a[2], a[3], call.color)
          [] OTHER -> self

\* C16: whatever a public operation puts on the bus of a session, the same
\* operation puts on the bus of a session of the other kind (hardware SPI
\* for bit-banged and back), as the same list of (mode, byte) pairs, and it
\* ends the same way; the level the data/command line starts at makes no
\* difference.  Transport faults aside.
C16_PathsAgree ==
    (op.name \notin {"none", "idle"} /\ fault = NoFault)
    => \A d \in {0, 1} :
          LET other == Run(op, [Self(NoFault) EXCEPT !.hw = ~hw, !.dc = d])
          IN  other.bus = bus /\ other.panic = panicked

C16_Witness ==
    /\ op.name = "draw_rect" /\ hw /\ fault = NoFault /\ ~panicked
    /\ op.args = <<0, 0, 1, 1>> /\ Len(bus) = 11 + 3 * 4
    /\ Run(op, [Self(NoFault) EXCEPT !.hw = FALSE]).bus = bus

(***************************************************************************)
(* C17.  The bit-banged write_byte, one pin write at a time.               *)
(*                                                                         *)
(* PinSpec follows a bit-banged session from new(): the clock is set low,  *)
(* then write_byte calls (those of init() and of any operation) run one    *)
(* pin write per step, with no transport fault.  bus holds the bytes whose *)
(* write_byte has started, pins every pin write so far.                    *)
(***************************************************************************)
\* The bytes PinSpec writes: opcodes of init() and bit patterns.
PinBytes == {0, 17, 41, 170, 255}

\* The pin writes of one bit-banged write_byte(value, data), in order.
write_byte_pins(value, data) ==
    <<[pin |-> "dc", level |-> IF data THEN 1 ELSE 0]>> \o bitbang(value)

\* How many pin writes the write_byte calls begun so far make when complete.
PinsDue == 1 + Len(bus) * Len(write_byte_pins(0, FALSE))

PinInit ==
    /\ Init
    /\ checked = FALSE
    /\ le = TRUE

\* new(): clk_pin.set_value(0).
ClockLow ==
    /\ phase = "none"
    /\ phase' = "ready"
    /\ pins' = <<[pin |-> "clk", level |-> 0]>>
    /\ UNCHANGED <<hw, checked, le, dc, op, fault, bus, failed, panicked, init_failed>>

\* write_byte(value, data) is called and sets the data/command line.
WriteByteBegins ==
    /\ phase = "ready"
    /\ Len(pins) = PinsDue
    /\ Len(bus) < MaxBytes
    /\ \E value \in PinBytes, data \in BOOLEAN :
          /\ op' = Call("write_byte", <<value, data>>, 0)
          /\ pins' = Append(pins, write_byte_pins(value, data)[1])
          /\ dc' = write_byte_pins(value, data)[1].level
          /\ bus' = Append(bus, Byte(dc', value))
    /\ UNCHANGED <<hw, checked, le, phase, fault, failed, panicked, init_failed>>

\* The next pin write of the write_byte in progress.
PinWrite ==
    /\ phase = "ready"
    /\ Len(pins) < PinsDue
    /\ LET all == write_byte_pins(op.args[1], op.args[2])
           done == Len(all) - (PinsDue - Len(pins))
       IN  pins' = Append(pins, all[done + 1])
    /\ UNCHANGED <<hw, checked, le, dc, phase, op, fault, bus, failed, panicked,
                   init_failed>>

PinNext ==
    \/ ClockLow
    \/ WriteByteBegins
    \/ PinWrite

PinSpec == PinInit /\ [][PinNext]_vars

\* The position in pins just before the pin writes of byte number j.
PinBase(j) == 1 + (j - 1) * 25

\* Bit number n (0 the least significant) of a byte.
BitOf(value, n) == (value \div Pow2(n)) % 2

\* C17: every bit-banged byte starts with the data/command line being set;
\* then for bit 7 down to bit 0 MOSI is set to that bit of the value and
\* after it the clock goes high and low once.  A complete byte has exactly
\* 8 rising clock edges, the clock is low before and after it, and MOSI is
\* never written while the clock is high.
C17_BitBangedByte ==
    /\ \A j \in 1..Len(bus) :
          LET at(i) == PinBase(j) + i
              written(i) == at(i) <= Len(pins)
              pulses == {k \in RisingEdges(pins) : k > at(0) /\ k <= at(25)}
          IN  /\ written(1)
              /\ pins[at(1)] = [pin |-> "dc", level |-> bus[j].dc]
              /\ LevelBefore(pins, "clk", at(1)) = 0
              /\ \A n \in 0..7 :
                    /\ written(2 + 3 * n)
                       => pins[at(2 + 3 * n)] =
                             [pin |-> "mosi", level |-> BitOf(bus[j].v, 7 - n)]
                    /\ written(3 + 3 * n)
                       => pins[at(3 + 3 * n)] = [pin |-> "clk", level |-> 1]
                    /\ written(4 + 3 * n)
                       => pins[at(4 + 3 * n)] = [pin |-> "clk", level |-> 0]
              /\ written(25)
                 => /\ Cardinality(pulses) = 8
                    /\ LevelBefore(pins, "clk", at(26)) = 0
    /\ \A k \in 1..Len(pins) :
          pins[k].pin = "mosi" => LevelBefore(pins, "clk", k) = 0

C17_Witness ==
    /\ Len(bus) = 2 /\ bus[2] = Byte(1, 170) /\ Len(pins) = 51
    /\ pins[27] = [pin |-> "dc", level |-> 1]
    /\ pins[28] = [pin |-> "mosi", level |-> 1]
    /\ pins[31] = [pin |-> "mosi", level |-> 0]

(***************************************************************************)
(* C18.  Shapes inside the panel.                                          *)
(*                                                                         *)
(* PanelSpec runs, on a session whose constructor met no fault, the shape  *)
(* operations on shapes that lie inside the panel, with no transport       *)
(* fault: the whole screen, and rectangles, lines and circles at the near  *)
(* and far edges of the panel.                                             *)
(***************************************************************************)
\* The panel fill_screen and clear_screen cover: columns 0..127, rows 0..159.
PanelWidth == 128

PanelHeight == 160

\* The columns and rows at the edges of the panel.
PanelXs == {0, 1, PanelWidth - 2, PanelWidth - 1}

PanelYs == {0, 1, PanelHeight - 2, PanelHeight - 1}

\* The small radii and the largest one a circle inside the panel can have.
PanelRadii == Radii \cup {PanelWidth \div 2 - 1}

\* The centres that put a circle of radius r into the near corner and into
\* the far corner of the panel.
PanelCentres(r) == {<<r, r>>, <<PanelWidth - 1 - r, PanelHeight - 1 - r>>}

\* 0xFF0000, the colour of the documentation's fill_screen example.
PanelColors == {16711680}

PanelInit ==
    /\ Init
    /\ le = TRUE

PanelNewWithSpi == NewWithSpi /\ fault' = NoFault

PanelNew == New /\ fault' = NoFault

FillScreen ==
    /\ Idle
    /\ \E c \in PanelColors :
          Ran(Call("fill_screen", <<>>, c), NoFault, fill_screen(Self(NoFault), c))
    /\ UNCHANGED <<hw, init_failed>>

ClearScreen ==
    /\ Idle
    /\ Ran(Call("clear_screen", <<>>, 0), NoFault, clear_screen(Self(NoFault)))
    /\ UNCHANGED <<hw, init_failed>>

PanelRect ==
    /\ Idle
    /\ \E x0 \in PanelXs, y0 \in PanelYs, x1 \in PanelXs, y1 \in PanelYs, c \in Colors :
          /\ x0 <= x1 /\ y0 <= y1
          /\ (x1 - x0 + 1) * (y1 - y0 + 1) <= MaxPanelWords
          /\ Ran(Call("draw_rect", <<x0, y0, x1, y1>>, c), NoFault,
                 draw_rect(Self(NoFault), x0, y0, x1, y1, c))
    /\ UNCHANGED <<hw, init_failed>>

PanelHorizontalLine ==
    /\ Idle
    /\ \E x0 \in PanelXs, x1 \in PanelXs, y \in PanelYs, c \in Colors :
          /\ x0 <= x1
          /\ Ran(Call("draw_horizontal_line", <<x0, x1, y>>, c), NoFault,
                 draw_horizontal_line(Self(NoFault), x0, x1, y, c))
    /\ UNCHANGED <<hw, init_failed>>

PanelVerticalLine ==
    /\ Idle
    /\ \E x \in PanelXs, y0 \in PanelYs, y1 \in PanelYs, c \in Colors :
          /\ y0 <= y1
          /\ Ran(Call("draw_vertical_line", <<x, y0, y1>>, c), NoFault,
                 draw_vertical_line(Self(NoFault), x, y0, y1, c))
    /\ UNCHANGED <<hw, init_failed>>

PanelCircle ==
    /\ Idle
    /\ \E r \in PanelRadii, c \in PanelColors :
          \E p \in PanelCentres(r) :
             Ran(Call("draw_circle", <<p[1], p[2], r>>, c), NoFault,
                 draw_circle(Self(NoFault), p[1], p[2], r, c))
    /\ UNCHANGED <<hw, init_failed>>

PanelFilledCircle ==
    /\ Idle
    /\ \E r \in PanelRadii, c \in PanelColors :
          \E p \in PanelCentres(r) :
             Ran(Call("draw_filled_circle", <<p[1], p[2], r>>, c), NoFault,
                 draw_filled_circle(Self(NoFault), p[1], p[2], r, c))
    /\ UNCHANGED <<hw, init_failed>>

PanelNext ==
    \/ Return
    \/ PanelNewWithSpi
    \/ PanelNew
    \/ FillScreen
    \/ ClearScreen
    \/ PanelRect
    \/ PanelHorizontalLine
    \/ PanelVerticalLine
    \/ PanelCircle
    \/ PanelFilledCircle

PanelSpec == PanelInit /\ [][PanelNext]_vars

\* The integer square root, as mathematics has it.
Root(n) == CHOOSE r \in 0..n : r * r <= n /\ n < (r + 1) * (r + 1)

\* The window, the memory write and n words of colour c.
Filled(x0, y0, x1, y1, n, c) ==
    /\ Len(bus) = 11 + 3 * n
    /\ SubSeq(bus, 1, 10) = WindowBytes(x0, y0, x1, y1)
    /\ bus[11] = CommandByte("RAMWR")
    /\ IsColorRun(bus, 12, c)

\* The window of the memory write at position i of the bus is exactly
\* [x0, x1] x [y0, y1] and is filled with whole colour words.
WindowIs(i, x0, y0, x1, y1) ==
    /\ i \in Writes(bus)
    /\ SubSeq(bus, i - 10, i - 1) = WindowBytes(x0, y0, x1, y1)
    /\ DataRun(bus, i) = 3 * (x1 - x0 + 1) * (y1 - y0 + 1)

\* The position of the k-th memory write of the bus.
WritePosition(k) ==
    LET w == Writes(bus)
    IN  CHOOSE i \in w : Cardinality({j \in w : j < i}) = k - 1

\* C18: a shape inside the panel, drawn with no transport fault, never makes
\* a u16 computation leave 0..65535: the operation does not panic where
\* overflow is checked, and where it is not, every window and every word
\* count on the bus is the one the computation gives over the integers.
\* fill_screen and clear_screen emit exactly 128 * 160 = 20480 colour words.
C18_InPanelShapes ==
    LET a == op.args
        c == op.color
    IN  /\ op.name \in {"fill_screen", "clear_screen"}
           => /\ ~panicked
              /\ Filled(0, 0, PanelWidth - 1, PanelHeight - 1, 20480, c)
        /\ op.name = "draw_rect"
           => /\ ~panicked
              /\ Filled(a[1], a[2], a[3], a[4],
                        (a[3] - a[1] + 1) * (a[4] - a[2] + 1), c)
        /\ op.name = "draw_horizontal_line"
           => /\ ~panicked
              /\ Filled(a[1], a[3], a[2], a[3], a[2] - a[1] + 1, c)
        /\ op.name = "draw_vertical_line"
           => /\ ~panicked
              /\ Filled(a[1], a[2], a[1], a[3], a[3] - a[2] + 1, c)
        /\ op.name = "draw_circle"
           => LET r == a[3]
                  last == CHOOSE x \in 0..r :
                              2 * x * x <= r * r /\ 2 * (x + 1) * (x + 1) > r * r
                  ring == UNION {LET y == Root(r * r - x * x)
                                 IN  {<<a[1] + sx * x, a[2] + sy * y>> : sx, sy \in {-1, 1}}
                                       \cup {<<a[1] + sx * y, a[2] + sy * x>> : sx, sy \in {-1, 1}}
                                 : x \in 0..last}
              IN  /\ ~panicked
                  /\ Len(bus) = 14 * 8 * (last + 1)
                  /\ Cardinality(Writes(bus)) = 8 * (last + 1)
                  /\ Plotted = ring
                  /\ ring \subseteq (0..(PanelWidth - 1)) \X (0..(PanelHeight - 1))
        /\ op.name = "draw_filled_circle"
           => LET r == a[3]
                  half(x) == Root(r * r - x * x)
              IN  /\ ~panicked
                  /\ Cardinality(Writes(bus)) = 2 * r
                  /\ \A i \in 1..Len(bus) : IsCommand(bus[i]) =>
                        \E j \in Writes(bus) : i \in {j - 10, j - 5, j}
                  /\ \A k \in 1..(2 * r) :
                        LET x == (k - 1) \div 2
                            col == IF k % 2 = 1 THEN a[1] + x ELSE a[1] - x
                        IN  WindowIs(WritePosition(k), col, a[2] - half(x),
                                     col, a[2] + half(x))

C18_Witness ==
    /\ op.name = "fill_screen" /\ checked /\ ~hw /\ ~panicked
    /\ Len(bus) = 11 + 3 * 20480
    /\ bus[Len(bus)] = Byte(1, op.color % 256)

====
